---- MODULE Spec2Model ----
(***************************************************************************)
(* Model of the Taekwondo match core: app/match_service.py (MatchService)  *)
(* over the records of app/models.py (Match, MatchEvent,                   *)
(* CurrentMatchState).                                                     *)
(*                                                                         *)
(* Spec      runs every service method as one step (a single operator      *)
(*           driving the service, each call running to completion).        *)
(* SpecSteps runs every method commit by commit, and lets a commit raise   *)
(*           or the process stop between two commits.                      *)
(*                                                                         *)
(* created_at / updated_at are not modelled: no method reads them.         *)
(***************************************************************************)
EXTENDS Integers, Sequences, FiniteSets, TLC

\* ------------------------------------------------------------------ bounds
\* most events the log may hold (every successful mutation appends one)
MaxEvents == 3
\* most Match rows created
MaxMatches == 2
\* largest round number a caller passes to next_round
MaxRound == 2

\* --------------------------------------------------------- models.py enums
TeamColor == {"BLUE", "RED"}

MatchState == {"NOT_STARTED", "RUNNING", "PAUSED", "FINISHED"}

\* Optional[...] = None: self._current_match_id, MatchEvent.team_color
None == 0

NoTeam == "NONE"

\* ScoreAction.points: Field(ge=1, le=10)
MinPoints == 1

MaxPoints == 10

\* the point values callers pass: the two UI buttons (+1, +3) and the
\* schema's upper limit
PointValues == {MinPoints, 3, MaxPoints}

\* RoundChange.new_round: Field(ge=1)
MinRound == 1

\* the round numbers a caller may try to build a RoundChange with
RoundInputs == (MinRound - 1)..MaxRound

\* primary keys the store hands out: 1, 2, ...
MatchIds == 1..MaxMatches

\* the match_id an action object carries: an id the store hands out, and the
\* 999 of test_error_handling_no_match
ActionMatchIds == {1, 999}

\* ------------------------------------------------------------ models.py rows
\* Match(): the column defaults
DefaultMatch(id) ==
    [id |-> id, blue_score |-> 0, red_score |-> 0, blue_gam_jeom |-> 0,
     red_gam_jeom |-> 0, current_round |-> 1, match_state |-> "NOT_STARTED"]

\* CurrentMatchState(): the schema defaults
DefaultState ==
    [blue_score |-> 0, red_score |-> 0, blue_gam_jeom |-> 0,
     red_gam_jeom |-> 0, current_round |-> 1, match_state |-> "NOT_STARTED"]

\* CurrentMatchState(blue_score=match.blue_score, ...)
Snapshot(match) ==
    [blue_score |-> match.blue_score, red_score |-> match.red_score,
     blue_gam_jeom |-> match.blue_gam_jeom, red_gam_jeom |-> match.red_gam_jeom,
     current_round |-> match.current_round, match_state |-> match.match_state]

\* the four counters a MatchEvent snapshots
Counters(match) ==
    [blue_score |-> match.blue_score, red_score |-> match.red_score,
     blue_gam_jeom |-> match.blue_gam_jeom, red_gam_jeom |-> match.red_gam_jeom]

ZeroCounters ==
    [blue_score |-> 0, red_score |-> 0, blue_gam_jeom |-> 0, red_gam_jeom |-> 0]

\* -------------------------------------------------------------------- state
VARIABLES
    matches,            \* table "matches": row id -> Match, ids 1..Len(matches)
    events,             \* table "match_events": row id -> MatchEvent
    current_match_id,   \* MatchService._current_match_id
    last,               \* what the call that the last step finished returned or
                        \* raised (Nothing when the step finished no call)
    tally,              \* per match: what was requested and committed since creation
    calls,              \* SpecSteps: the call in progress of each caller
    spent               \* SpecSteps: calls that ended without appending an event

vars == <<matches, events, current_match_id, last, tally, calls, spent>>

\* session.get(Match, id): the row, or None
HasMatch(store, id) == id /= None /\ id \in 1..Len(store)

\* ---------------------------------------------- match_service.py: reads
\* get_current_state with the two score fields filled from each other's column
GetCurrentStateSwapped(id, store) ==
    IF id = None THEN DefaultState
    ELSE IF ~HasMatch(store, id) THEN DefaultState
    ELSE [Snapshot(store[id]) EXCEPT !.blue_score = store[id].red_score,
                                     !.red_score = store[id].blue_score]

\* get_current_state: the default snapshot when nothing is selected or the
\* selected row is missing, else the six stored fields
GetCurrentState(id, store) ==
    IF id = None THEN DefaultState
    ELSE IF ~HasMatch(store, id) THEN DefaultState
    ELSE Snapshot(store[id])

\* -------------------------------------- match_service.py: field updates
\* add_score that also sets a match that has not started RUNNING
ScoreUpdateStartsMatch(match, team_color, points) ==
    LET started == IF match.match_state = "NOT_STARTED" THEN "RUNNING"
                   ELSE match.match_state
    IN IF team_color = "BLUE"
       THEN [match EXCEPT !.blue_score = @ + points, !.match_state = started]
       ELSE [match EXCEPT !.red_score = @ + points, !.match_state = started]

\* add_score with the score capped at the schema's upper limit of one action
ScoreUpdateCapped(match, team_color, points) ==
    IF team_color = "BLUE"
    THEN [match EXCEPT !.blue_score = IF @ + points > MaxPoints THEN MaxPoints ELSE @ + points]
    ELSE [match EXCEPT !.red_score = IF @ + points > MaxPoints THEN MaxPoints ELSE @ + points]

\* add_score: match.blue_score += points / match.red_score += points
ScoreUpdate(match, team_color, points) ==
    IF team_color = "BLUE"
    THEN [match EXCEPT !.blue_score = @ + points]
    ELSE [match EXCEPT !.red_score = @ + points]

\* add_gam_jeom that counts the penalty and awards no point
GamJeomUpdateNoPoint(match, penalized_team) ==
    IF penalized_team = "BLUE"
    THEN [match EXCEPT !.blue_gam_jeom = @ + 1]
    ELSE [match EXCEPT !.red_gam_jeom = @ + 1]

\* add_gam_jeom with the point awarded to the penalized team itself
GamJeomUpdateOwnScore(match, penalized_team) ==
    IF penalized_team = "BLUE"
    THEN [match EXCEPT !.blue_gam_jeom = @ + 1, !.blue_score = @ + 1]
    ELSE [match EXCEPT !.red_gam_jeom = @ + 1, !.red_score = @ + 1]

\* add_gam_jeom: the penalty, and the point for the opposing team
GamJeomUpdate(match, penalized_team) ==
    IF penalized_team = "BLUE"
    THEN [match EXCEPT !.blue_gam_jeom = @ + 1, !.red_score = @ + 1]
    ELSE [match EXCEPT !.red_gam_jeom = @ + 1, !.blue_score = @ + 1]

\* add_gam_jeom: opposing_team
OpposingTeam(penalized_team) == IF penalized_team = "BLUE" THEN "RED" ELSE "BLUE"

\* change_match_state with FINISHED as a state no match leaves
StateUpdateFinishedStays(match, new_state) ==
    IF match.match_state = "FINISHED" THEN match
    ELSE [match EXCEPT !.match_state = new_state]

\* change_match_state: match.match_state = change.new_state
StateUpdate(match, new_state) == [match EXCEPT !.match_state = new_state]

\* next_round that only ever moves forward
RoundUpdateForwardOnly(match, new_round) ==
    IF new_round > match.current_round
    THEN [match EXCEPT !.current_round = new_round]
    ELSE match

\* next_round starting the new round from 0 : 0
RoundUpdateClearsScores(match, new_round) ==
    [match EXCEPT !.current_round = new_round, !.blue_score = 0, !.red_score = 0]

\* next_round: match.current_round = change.new_round
RoundUpdate(match, new_round) == [match EXCEPT !.current_round = new_round]

\* reset_match that clears the counters and the state but advances the round
ResetUpdateNextRound(match) ==
    [match EXCEPT !.blue_score = 0, !.red_score = 0, !.blue_gam_jeom = 0,
                  !.red_gam_jeom = 0, !.current_round = @ + 1,
                  !.match_state = "NOT_STARTED"]

\* reset_match that leaves the gam-jeom counts alone
ResetUpdateKeepsGamJeom(match) ==
    [match EXCEPT !.blue_score = 0, !.red_score = 0, !.current_round = 1,
                  !.match_state = "NOT_STARTED"]

\* reset_match: "Reset all values"
ResetUpdate(match) ==
    [match EXCEPT !.blue_score = 0, !.red_score = 0, !.blue_gam_jeom = 0,
                  !.red_gam_jeom = 0, !.current_round = 1,
                  !.match_state = "NOT_STARTED"]

\* ------------------------------------------ match_service.py: the audit log
\* _record_event keeping one row per match, rewritten by each new event
RecordEventOverwrites(log, match_id, event_type, round_number, before, after, team_color, points_awarded, notes) ==
    LET event == [id |-> Len(log) + 1, match_id |-> match_id,
                  event_type |-> event_type, team_color |-> team_color,
                  points_awarded |-> points_awarded, round_number |-> round_number,
                  blue_score_before |-> before.blue_score,
                  red_score_before |-> before.red_score,
                  blue_gam_jeom_before |-> before.blue_gam_jeom,
                  red_gam_jeom_before |-> before.red_gam_jeom,
                  blue_score_after |-> after.blue_score,
                  red_score_after |-> after.red_score,
                  blue_gam_jeom_after |-> after.blue_gam_jeom,
                  red_gam_jeom_after |-> after.red_gam_jeom,
                  notes |-> notes]
    IN IF \E i \in 1..Len(log) : log[i].match_id = match_id
       THEN [i \in 1..Len(log) |->
                IF log[i].match_id = match_id THEN [event EXCEPT !.id = i] ELSE log[i]]
       ELSE Append(log, event)

\* _record_event: MatchEvent(...), session.add(event), session.commit()
RecordEvent(log, match_id, event_type, round_number, before, after, team_color, points_awarded, notes) ==
    Append(log,
        [id |-> Len(log) + 1,
         match_id |-> match_id,
         event_type |-> event_type,
         team_color |-> team_color,
         points_awarded |-> points_awarded,
         round_number |-> round_number,
         blue_score_before |-> before.blue_score,
         red_score_before |-> before.red_score,
         blue_gam_jeom_before |-> before.blue_gam_jeom,
         red_gam_jeom_before |-> before.red_gam_jeom,
         blue_score_after |-> after.blue_score,
         red_score_after |-> after.red_score,
         blue_gam_jeom_after |-> after.blue_gam_jeom,
         red_gam_jeom_after |-> after.red_gam_jeom,
         notes |-> notes])

\* create_new_match: the MATCH_CREATED event, every counter the literal 0
RecordCreated(log, match_id) ==
    RecordEvent(log, match_id, "MATCH_CREATED", 1, ZeroCounters, ZeroCounters,
                NoTeam, 0, [text |-> "New match created"])

\* the SCORE event filed under round 1 whatever the round
RecordScoreRoundOne(log, row, before, action) ==
    RecordEvent(log, row.id, "SCORE", 1, before, Counters(row),
                action.team_color, action.points,
                [text |-> "{team} team scored {points} points",
                 team |-> action.team_color, points |-> action.points])

\* the SCORE event with its "before" counters read after the update
RecordScoreLateBefore(log, row, before, action) ==
    RecordEvent(log, row.id, "SCORE", row.current_round, Counters(row), Counters(row),
                action.team_color, action.points,
                [text |-> "{team} team scored {points} points",
                 team |-> action.team_color, points |-> action.points])

\* add_score: the SCORE event; row is the match object as read after its commit
RecordScore(log, row, before, action) ==
    RecordEvent(log, row.id, "SCORE", row.current_round, before, Counters(row),
                action.team_color, action.points,
                [text |-> "{team} team scored {points} points",
                 team |-> action.team_color, points |-> action.points])

\* the GAM_JEOM event filed under the team that received the point
RecordGamJeomForOpponent(log, row, before, action) ==
    RecordEvent(log, row.id, "GAM_JEOM", row.current_round, before, Counters(row),
                OpposingTeam(action.penalized_team), 1,
                [text |-> "Gam-Jeom penalty for {team}, point awarded to {opposing}",
                 team |-> action.penalized_team,
                 opposing |-> OpposingTeam(action.penalized_team)])

\* add_gam_jeom: the GAM_JEOM event
RecordGamJeom(log, row, before, action) ==
    RecordEvent(log, row.id, "GAM_JEOM", row.current_round, before, Counters(row),
                action.penalized_team, 1,
                [text |-> "Gam-Jeom penalty for {team}, point awarded to {opposing}",
                 team |-> action.penalized_team,
                 opposing |-> OpposingTeam(action.penalized_team)])

\* the STATE_CHANGE event with its counters left at the defaults of 0
RecordStateChangeNoCounters(log, row, old_state, change) ==
    RecordEvent(log, row.id, "STATE_CHANGE", row.current_round,
                ZeroCounters, ZeroCounters, NoTeam, 0,
                [text |-> "Match state changed from {old} to {new}",
                 old_state |-> old_state, new_state |-> change.new_state])

\* change_match_state: the STATE_CHANGE event; before and after are both read
\* from the match object after its commit
RecordStateChange(log, row, old_state, change) ==
    RecordEvent(log, row.id, "STATE_CHANGE", row.current_round,
                Counters(row), Counters(row), NoTeam, 0,
                [text |-> "Match state changed from {old} to {new}",
                 old_state |-> old_state, new_state |-> change.new_state])

\* the ROUND_CHANGE event with the new round passed as points_awarded too
RecordRoundChangeAwardsRound(log, row, old_round, change) ==
    RecordEvent(log, row.id, "ROUND_CHANGE", change.new_round,
                Counters(row), Counters(row), NoTeam, change.new_round,
                [text |-> "Round changed from {old} to {new}",
                 old_round |-> old_round, new_round |-> change.new_round])

\* next_round: the ROUND_CHANGE event, round_number = change.new_round
RecordRoundChange(log, row, old_round, change) ==
    RecordEvent(log, row.id, "ROUND_CHANGE", change.new_round,
                Counters(row), Counters(row), NoTeam, 0,
                [text |-> "Round changed from {old} to {new}",
                 old_round |-> old_round, new_round |-> change.new_round])

\* the RESET event with the counters it cleared repeated as its "after" values
RecordResetNoDelta(log, row, before, round_before) ==
    RecordEvent(log, row.id, "RESET", 1, before, before, NoTeam, 0,
                [text |-> "Match reset: Scores, Gam-Jeom, Round -> All reset",
                 before |-> before, round_before |-> round_before])

\* the RESET event with its "before" counters read after the reset
RecordResetLateBefore(log, row, before, round_before) ==
    RecordEvent(log, row.id, "RESET", 1, Counters(row), ZeroCounters, NoTeam, 0,
                [text |-> "Match reset: Scores, Gam-Jeom, Round -> All reset",
                 before |-> before, round_before |-> round_before])

\* the RESET event filed under the round the match was in before the reset
RecordResetRoundBefore(log, row, before, round_before) ==
    RecordEvent(log, row.id, "RESET", round_before, before, ZeroCounters, NoTeam, 0,
                [text |-> "Match reset: Scores, Gam-Jeom, Round -> All reset",
                 before |-> before, round_before |-> round_before])

\* reset_match: the RESET event, round 1 and the "after" counters literal 0
RecordReset(log, row, before, round_before) ==
    RecordEvent(log, row.id, "RESET", 1, before, ZeroCounters, NoTeam, 0,
                [text |-> "Match reset: Scores, Gam-Jeom, Round -> All reset",
                 before |-> before, round_before |-> round_before])

\* ------------------------------------------------ what a call hands back
\* raise ValueError("No active match")
NoActiveMatch == [type |-> "ValueError", message |-> "No active match"]

\* raise ValueError("Match not found")
MatchNotFound == [type |-> "ValueError", message |-> "Match not found"]

\* raise ValueError("Failed to create match")
FailedToCreate == [type |-> "ValueError", message |-> "Failed to create match"]

NoError == [type |-> "-", message |-> "-"]

NoArgs == [none |-> TRUE]

\* a call that returned `value`
Returned(op, args, value) ==
    [op |-> op, args |-> args, status |-> "ok", error |-> NoError, value |-> value]

\* a call that raised `error`
Raised(op, args, error) ==
    [op |-> op, args |-> args, status |-> "error", error |-> error,
     value |-> [none |-> TRUE]]

\* no call has finished
Nothing == Returned("-", NoArgs, NoArgs)

MutatingOps ==
    {"add_score", "add_gam_jeom", "change_match_state", "next_round", "reset_match"}

\* ------------------------------------------------- models.py: the schemas
\* what RoundChange(...) raises for a new_round its Field(ge=1) turns down
ValidationError ==
    [type |-> "ValidationError", message |-> "new_round violates ge=1"]

\* RoundChange with no constraint on new_round
RoundChangeSchemaUnchecked(new_round) == NoError

\* RoundChange(match_id=..., new_round=new_round): new_round: int = Field(ge=1)
RoundChangeSchema(new_round) ==
    IF new_round >= MinRound THEN NoError ELSE ValidationError

\* the new_round of the RoundChange objects that exist
RoundValues == {r \in RoundInputs : RoundChangeSchema(r) = NoError}

\* ------------------------------------------------- the callers' inputs
Callers == {"c1", "c2"}

ScoreActions == [team_color : TeamColor, points : PointValues, match_id : ActionMatchIds]

GamJeomActions == [penalized_team : TeamColor, match_id : ActionMatchIds]

MatchStateChanges == [new_state : MatchState, match_id : ActionMatchIds]

RoundChanges == [new_round : RoundValues, match_id : ActionMatchIds]

MatchResets == [match_id : ActionMatchIds]

\* SpecSteps follows the interleaving of the steps rather than the data: its
\* callers pass one value per method (a point for BLUE, a penalty against RED,
\* which both raise blue_score), and the match_id of the tests
StepScoreActions ==
    {a \in ScoreActions : a.team_color = "BLUE" /\ a.points = MinPoints /\ a.match_id = 999}

StepGamJeomActions ==
    {a \in GamJeomActions : a.penalized_team = "RED" /\ a.match_id = 999}

StepMatchStateChanges ==
    {a \in MatchStateChanges : a.new_state = "RUNNING" /\ a.match_id = 999}

StepRoundChanges == {a \in RoundChanges : a.new_round = MaxRound /\ a.match_id = 999}

StepMatchResets == {a \in MatchResets : a.match_id = 999}

\* ---------------------------------------------- bookkeeping of the requests
\* a match as its INSERT is committed: nothing requested yet, one committed
\* write to the row (the INSERT) and no call cut short
NoTally ==
    [blue_points |-> 0, red_points |-> 0, blue_penalties |-> 0,
     red_penalties |-> 0, resets |-> 0, writes |-> 1, cut |-> 0]

TallyScore(t, id, action) ==
    IF action.team_color = "BLUE"
    THEN [t EXCEPT ![id].blue_points = @ + action.points]
    ELSE [t EXCEPT ![id].red_points = @ + action.points]

TallyGamJeom(t, id, action) ==
    IF action.penalized_team = "BLUE"
    THEN [t EXCEPT ![id].blue_penalties = @ + 1]
    ELSE [t EXCEPT ![id].red_penalties = @ + 1]

TallyReset(t, id) == [t EXCEPT ![id].resets = @ + 1]

\* one more committed write to the row of match id
TallyWrite(t, id) == [t EXCEPT ![id].writes = @ + 1]

\* the positions of a call between the commit of its Match and the commit of
\* its event
BetweenWrites == {"select", "record"}

\* the calls that stand between their two commits on match id
CallsBetweenWrites(id) ==
    {c \in DOMAIN calls : calls[c].pc \in BetweenWrites /\ calls[c].match.id = id}

\* the calls in `stopped` end where they stand: those between their two
\* commits are counted as cut short on their match
TallyCut(t, stopped) ==
    [id \in DOMAIN t |->
        [t[id] EXCEPT !.cut = @ + Cardinality(CallsBetweenWrites(id) \cap stopped)]]

\* the call record of a caller with no call in progress
IdleCall == [pc |-> "idle"]

\* MatchService.__init__ on an empty database
Init ==
    /\ matches = <<>>
    /\ events = <<>>
    /\ current_match_id = None
    /\ last = Nothing
    /\ tally = <<>>
    /\ calls = [c \in Callers |-> IdleCall]
    /\ spent = 0

\* ------------------------------------ match_service.py, one call per step
\* create_new_match without self._current_match_id = match.id
CreateNewMatchNoSelect ==
    /\ Len(matches) < MaxMatches
    /\ Len(events) < MaxEvents
    /\ LET id == Len(matches) + 1
       IN /\ matches' = Append(matches, DefaultMatch(id))
          /\ events' = RecordCreated(events, id)
          /\ tally' = Append(tally, NoTally)
          /\ last' = Returned("create_new_match", NoArgs, [id |-> id])
    /\ UNCHANGED <<current_match_id, calls, spent>>

\* create_new_match; id is the primary key the store gives the new row, which
\* session.refresh(match) reads back
CreateNewMatch ==
    /\ Len(matches) < MaxMatches
    /\ Len(events) < MaxEvents
    /\ LET id == Len(matches) + 1
       IN /\ matches' = Append(matches, DefaultMatch(id))
          /\ tally' = Append(tally, NoTally)
          /\ IF id = None
             THEN /\ last' = Raised("create_new_match", NoArgs, FailedToCreate)
                  /\ UNCHANGED <<events, current_match_id>>
             ELSE /\ current_match_id' = id
                  /\ events' = RecordCreated(events, id)
                  /\ last' = Returned("create_new_match", NoArgs, [id |-> id])
    /\ UNCHANGED <<calls, spent>>

\* set_current_match_id
SetCurrentMatchId(match_id) ==
    /\ current_match_id' = match_id
    /\ last' = Returned("set_current_match_id", [match_id |-> match_id], NoArgs)
    /\ UNCHANGED <<matches, events, tally, calls, spent>>

\* get_current_match_id
GetCurrentMatchId ==
    /\ last' = Returned("get_current_match_id", NoArgs, [id |-> current_match_id])
    /\ UNCHANGED <<matches, events, current_match_id, tally, calls, spent>>

\* get_current_state raising when the selected id has no row
GetStateStrict ==
    /\ last' = IF current_match_id /= None /\ ~HasMatch(matches, current_match_id)
               THEN Raised("get_current_state", NoArgs, MatchNotFound)
               ELSE Returned("get_current_state", NoArgs,
                             GetCurrentState(current_match_id, matches))
    /\ UNCHANGED <<matches, events, current_match_id, tally, calls, spent>>

\* get_current_state, called by itself
GetState ==
    /\ last' = Returned("get_current_state", NoArgs,
                        GetCurrentState(current_match_id, matches))
    /\ UNCHANGED <<matches, events, current_match_id, tally, calls, spent>>

\* the checks without the one for an unset pointer
GuardSkipsNone(id, store) ==
    IF ~HasMatch(store, id) THEN MatchNotFound ELSE NoError

\* the checks with a missing row raised as another exception class
GuardLookupError(id, store) ==
    IF id = None THEN NoActiveMatch
    ELSE IF ~HasMatch(store, id) THEN [type |-> "LookupError", message |-> "Match not found"]
    ELSE NoError

\* the two checks every mutating method opens with:
\*   if self._current_match_id is None: raise ValueError("No active match")
\*   match = session.get(...); if match is None: raise ValueError("Match not found")
Guard(id, store) ==
    IF id = None THEN NoActiveMatch
    ELSE IF ~HasMatch(store, id) THEN MatchNotFound
    ELSE NoError

\* a raise before anything was written
Refuse(op, args, error) ==
    /\ last' = Raised(op, args, error)
    /\ UNCHANGED <<matches, events, current_match_id, tally, calls, spent>>

\* the commit writing the new field values to every row of the table
CompleteOnEveryRow(op, args, row, log, requests) ==
    /\ Len(events) < MaxEvents
    /\ matches' = [i \in 1..Len(matches) |-> [row EXCEPT !.id = i]]
    /\ events' = log
    /\ tally' = TallyWrite(requests, row.id)
    /\ last' = Returned(op, args, GetCurrentState(current_match_id, matches'))
    /\ UNCHANGED <<current_match_id, calls, spent>>

\* session.add(match), session.commit(), the event of _record_event, and
\* return self.get_current_state()
Complete(op, args, row, log, requests) ==
    /\ Len(events) < MaxEvents
    /\ matches' = [matches EXCEPT ![row.id] = row]
    /\ events' = log
    /\ tally' = TallyWrite(requests, row.id)
    /\ last' = Returned(op, args, GetCurrentState(current_match_id, matches'))
    /\ UNCHANGED <<current_match_id, calls, spent>>

\* RoundChange(match_id=..., new_round=...) raising: no object, no call of
\* next_round
RoundChangeRefused(new_round) ==
    /\ RoundChangeSchema(new_round) /= NoError
    /\ last' = Raised("RoundChange", [new_round |-> new_round],
                      RoundChangeSchema(new_round))
    /\ UNCHANGED <<matches, events, current_match_id, tally, calls, spent>>

\* add_score on the match its action names
AddScoreByActionId(action) ==
    LET args == [team_color |-> action.team_color, points |-> action.points]
        error == Guard(action.match_id, matches)
        match == matches[action.match_id]
        row == ScoreUpdate(match, action.team_color, action.points)
    IN IF error /= NoError
       THEN Refuse("add_score", args, error)
       ELSE Complete("add_score", args, row,
                     RecordScore(events, row, Counters(match), action),
                     TallyScore(tally, match.id, action))

\* add_score
AddScore(action) ==
    LET args == [team_color |-> action.team_color, points |-> action.points]
        error == Guard(current_match_id, matches)
        match == matches[current_match_id]
        row == ScoreUpdate(match, action.team_color, action.points)
    IN IF error /= NoError
       THEN Refuse("add_score", args, error)
       ELSE Complete("add_score", args, row,
                     RecordScore(events, row, Counters(match), action),
                     TallyScore(tally, match.id, action))

\* add_gam_jeom
AddGamJeom(action) ==
    LET args == [penalized_team |-> action.penalized_team]
        error == Guard(current_match_id, matches)
        match == matches[current_match_id]
        row == GamJeomUpdate(match, action.penalized_team)
    IN IF error /= NoError
       THEN Refuse("add_gam_jeom", args, error)
       ELSE Complete("add_gam_jeom", args, row,
                     RecordGamJeom(events, row, Counters(match), action),
                     TallyGamJeom(tally, match.id, action))

\* change_match_state
ChangeMatchState(change) ==
    LET args == [new_state |-> change.new_state]
        error == Guard(current_match_id, matches)
        match == matches[current_match_id]
        row == StateUpdate(match, change.new_state)
    IN IF error /= NoError
       THEN Refuse("change_match_state", args, error)
       ELSE Complete("change_match_state", args, row,
                     RecordStateChange(events, row, match.match_state, change),
                     tally)

\* next_round
NextRound(change) ==
    LET args == [new_round |-> change.new_round]
        error == Guard(current_match_id, matches)
        match == matches[current_match_id]
        row == RoundUpdate(match, change.new_round)
    IN IF error /= NoError
       THEN Refuse("next_round", args, error)
       ELSE Complete("next_round", args, row,
                     RecordRoundChange(events, row, match.current_round, change),
                     tally)

\* reset_match
ResetMatch(reset_action) ==
    LET error == Guard(current_match_id, matches)
        match == matches[current_match_id]
        row == ResetUpdate(match)
    IN IF error /= NoError
       THEN Refuse("reset_match", NoArgs, error)
       ELSE Complete("reset_match", NoArgs, row,
                     RecordReset(events, row, Counters(match), match.current_round),
                     TallyReset(tally, match.id))

Next ==
    \/ CreateNewMatch
    \/ \E id \in MatchIds : SetCurrentMatchId(id)
    \/ GetCurrentMatchId
    \/ GetState
    \/ \E action \in ScoreActions : AddScore(action)
    \/ \E action \in GamJeomActions : AddGamJeom(action)
    \/ \E change \in MatchStateChanges : ChangeMatchState(change)
    \/ \E change \in RoundChanges : NextRound(change)
    \/ \E new_round \in RoundInputs : RoundChangeRefused(new_round)
    \/ \E reset_action \in MatchResets : ResetMatch(reset_action)

Spec == Init /\ [][Next]_vars

\* ------------------------- match_service.py, one commit or read per step
\* A caller c runs a method as the steps between which another caller, a
\* raising commit or a process stop can come in: the pointer check and the
\* load (the pointer never goes back to None while the process lives, so the
\* check and the load that follows it see the same answer), the commit of the
\* Match, the commit of the event, and the closing get_current_state.

\* an exception out of session.commit(), passed on unchanged
CommitFailed == [type |-> "OperationalError", message |-> "commit failed"]

Idle(c) == calls[c].pc = "idle"

InProgress == {c \in Callers : ~Idle(c)}

\* room for one more call: MaxEvents bounds the calls that get past their
\* checks, whether they append their event or end without one
Room == Len(events) + Cardinality(InProgress) + spent < MaxEvents

\* c may begin a call. The callers are interchangeable and keep nothing
\* between calls, so a call that begins while no other is in progress is
\* taken to be c1's.
CanBegin(c) ==
    /\ Idle(c)
    /\ (c /= "c1" => ~Idle("c1"))
    /\ Room

\* the local match object after the method's assignments
Updated(call) ==
    CASE call.op = "add_score" ->
            ScoreUpdate(call.match, call.action.team_color, call.action.points)
      [] call.op = "add_gam_jeom" ->
            GamJeomUpdate(call.match, call.action.penalized_team)
      [] call.op = "change_match_state" ->
            StateUpdate(call.match, call.action.new_state)
      [] call.op = "next_round" ->
            RoundUpdate(call.match, call.action.new_round)
      [] call.op = "reset_match" -> ResetUpdate(call.match)

\* session.add(match), session.commit(): the UPDATE sets the columns whose
\* value the method changed on the loaded object; the others keep what the
\* table holds
Flush(stored, loaded, updated) ==
    [field \in DOMAIN stored |->
        IF updated[field] /= loaded[field] THEN updated[field] ELSE stored[field]]

\* the requests counted for a committed call
Requested(call) ==
    CASE call.op = "add_score" -> TallyScore(tally, call.match.id, call.action)
      [] call.op = "add_gam_jeom" -> TallyGamJeom(tally, call.match.id, call.action)
      [] call.op = "reset_match" -> TallyReset(tally, call.match.id)
      [] OTHER -> tally

\* the method's _record_event call, with `row` the match object as read
\* after its commit
RecordedFrom(call, row) ==
    CASE call.op = "create_new_match" -> RecordCreated(events, call.match.id)
      [] call.op = "add_score" ->
            RecordScore(events, row, Counters(call.match), call.action)
      [] call.op = "add_gam_jeom" ->
            RecordGamJeom(events, row, Counters(call.match), call.action)
      [] call.op = "change_match_state" ->
            RecordStateChange(events, row, call.match.match_state, call.action)
      [] call.op = "next_round" ->
            RecordRoundChange(events, row, call.match.current_round, call.action)
      [] call.op = "reset_match" ->
            RecordReset(events, row, Counters(call.match), call.match.current_round)

\* the method's _record_event call; its match.* arguments are read after the
\* commit, from the row as the table then holds it
Recorded(call) == RecordedFrom(call, matches[call.match.id])

\* create_new_match: session.add(match), session.commit(), session.refresh(match)
InsertMatch(c) ==
    /\ CanBegin(c)
    /\ Len(matches) < MaxMatches
    /\ LET id == Len(matches) + 1
       IN /\ matches' = Append(matches, DefaultMatch(id))
          /\ tally' = Append(tally, NoTally)
          /\ calls' = [calls EXCEPT ![c] =
                [pc |-> "select", op |-> "create_new_match", args |-> NoArgs,
                 action |-> NoArgs, match |-> DefaultMatch(id)]]
    /\ last' = Nothing
    /\ UNCHANGED <<events, current_match_id, spent>>

\* create_new_match: if match.id is None: raise ...;
\* self._current_match_id = match.id
SelectInserted(c) ==
    /\ calls[c].pc = "select"
    /\ IF calls[c].match.id = None
       THEN /\ last' = Raised("create_new_match", NoArgs, FailedToCreate)
            /\ calls' = [calls EXCEPT ![c] = IdleCall]
            /\ tally' = TallyCut(tally, {c})
            /\ UNCHANGED current_match_id
       ELSE /\ current_match_id' = calls[c].match.id
            /\ calls' = [calls EXCEPT ![c].pc = "record"]
            /\ last' = Nothing
            /\ UNCHANGED tally
    /\ UNCHANGED <<matches, events, spent>>

\* a mutating method up to its session.commit(): the two checks, the load,
\* the "before" locals and the assignments to the loaded object
Begin(c, op, args, action) ==
    /\ CanBegin(c)
    /\ LET error == Guard(current_match_id, matches)
       IN IF error /= NoError
          THEN /\ last' = Raised(op, args, error)
               /\ UNCHANGED calls
          ELSE /\ calls' = [calls EXCEPT ![c] =
                     [pc |-> "commit", op |-> op, args |-> args,
                      action |-> action, match |-> matches[current_match_id]]]
               /\ last' = Nothing
    /\ UNCHANGED <<matches, events, current_match_id, tally, spent>>

BeginAddScore(c, action) ==
    Begin(c, "add_score",
          [team_color |-> action.team_color, points |-> action.points], action)

BeginAddGamJeom(c, action) ==
    Begin(c, "add_gam_jeom", [penalized_team |-> action.penalized_team], action)

BeginChangeMatchState(c, change) ==
    Begin(c, "change_match_state", [new_state |-> change.new_state], change)

BeginNextRound(c, change) ==
    Begin(c, "next_round", [new_round |-> change.new_round], change)

BeginResetMatch(c, reset_action) ==
    Begin(c, "reset_match", NoArgs, reset_action)

\* the method going on to _record_event with its Match never committed
CommitMatchSkipped(c) ==
    /\ calls[c].pc = "commit"
    /\ calls' = [calls EXCEPT ![c].pc = "record"]
    /\ last' = Nothing
    /\ UNCHANGED <<matches, events, current_match_id, tally, spent>>

\* match.updated_at = ..., session.add(match), session.commit()
CommitMatch(c) ==
    /\ calls[c].pc = "commit"
    /\ LET id == calls[c].match.id
       IN matches' = [matches EXCEPT
                         ![id] = Flush(matches[id], calls[c].match, Updated(calls[c]))]
    /\ tally' = TallyWrite(Requested(calls[c]), calls[c].match.id)
    /\ calls' = [calls EXCEPT ![c].pc = "record"]
    /\ last' = Nothing
    /\ UNCHANGED <<events, current_match_id, spent>>

\* self._record_event(...); create_new_match then returns match.id
CommitEvent(c) ==
    /\ calls[c].pc = "record"
    /\ events' = Recorded(calls[c])
    /\ IF calls[c].op = "create_new_match"
       THEN /\ last' = Returned("create_new_match", NoArgs,
                                [id |-> calls[c].match.id])
            /\ calls' = [calls EXCEPT ![c] = IdleCall]
       ELSE /\ calls' = [calls EXCEPT ![c].pc = "return"]
            /\ last' = Nothing
    /\ UNCHANGED <<matches, current_match_id, tally, spent>>

\* a method that holds its result back until the selected id has a row
ReturnStateWaits(c) ==
    /\ calls[c].pc = "return"
    /\ HasMatch(matches, current_match_id)
    /\ last' = Returned(calls[c].op, calls[c].args,
                        GetCurrentState(current_match_id, matches))
    /\ calls' = [calls EXCEPT ![c] = IdleCall]
    /\ UNCHANGED <<matches, events, current_match_id, tally, spent>>

\* return self.get_current_state()
ReturnState(c) ==
    /\ calls[c].pc = "return"
    /\ last' = Returned(calls[c].op, calls[c].args,
                        GetCurrentState(current_match_id, matches))
    /\ calls' = [calls EXCEPT ![c] = IdleCall]
    /\ UNCHANGED <<matches, events, current_match_id, tally, spent>>

\* session.commit() raises, for the Match or for the event: the method has no
\* try/except, the exception reaches the caller and what was committed stays
CommitRaises(c) ==
    /\ calls[c].pc \in {"commit", "record"}
    /\ spent' = spent + 1
    /\ last' = Raised(calls[c].op, calls[c].args, CommitFailed)
    /\ calls' = [calls EXCEPT ![c] = IdleCall]
    /\ tally' = TallyCut(tally, {c})
    /\ UNCHANGED <<matches, events, current_match_id>>

\* the process stops in the middle of a call and is started again: the tables
\* keep what was committed, the new MatchService() has no match selected
ProcessStops ==
    /\ InProgress /= {}
    /\ spent' = spent + Cardinality(InProgress)
    /\ calls' = [c \in Callers |-> IdleCall]
    /\ current_match_id' = None
    /\ last' = Nothing
    /\ tally' = TallyCut(tally, InProgress)
    /\ UNCHANGED <<matches, events>>

\* set_current_match_id that leaves a pointer alone once one is set
SelectMatchKeepsFirst(match_id) ==
    /\ \E c \in Callers : Idle(c)
    /\ Room
    /\ current_match_id' = IF current_match_id = None THEN match_id ELSE current_match_id
    /\ last' = Returned("set_current_match_id", [match_id |-> match_id], NoArgs)
    /\ spent' = spent + 1
    /\ UNCHANGED <<matches, events, tally, calls>>

\* set_current_match_id by a caller with no call in progress: the one method
\* that writes shared state in a single step (the two that only read,
\* get_current_match_id and get_current_state, change nothing another call sees)
SelectMatch(match_id) ==
    /\ \E c \in Callers : Idle(c)
    /\ Room
    /\ current_match_id' = match_id
    /\ last' = Returned("set_current_match_id", [match_id |-> match_id], NoArgs)
    /\ spent' = spent + 1
    /\ UNCHANGED <<matches, events, tally, calls>>

NextSteps ==
    \/ \E c \in Callers : InsertMatch(c)
    \/ \E c \in Callers : SelectInserted(c)
    \/ \E c \in Callers, action \in StepScoreActions : BeginAddScore(c, action)
    \/ \E c \in Callers, action \in StepGamJeomActions : BeginAddGamJeom(c, action)
    \/ \E c \in Callers, change \in StepMatchStateChanges : BeginChangeMatchState(c, change)
    \/ \E c \in Callers, change \in StepRoundChanges : BeginNextRound(c, change)
    \/ \E c \in Callers, reset_action \in StepMatchResets : BeginResetMatch(c, reset_action)
    \/ \E c \in Callers : CommitMatch(c)
    \/ \E c \in Callers : CommitEvent(c)
    \/ \E c \in Callers : ReturnState(c)
    \/ \E c \in Callers : CommitRaises(c)
    \/ ProcessStops
    \/ \E id \in MatchIds : SelectMatch(id)

SpecSteps == Init /\ [][NextSteps]_vars

\* the next statement of the call c is in: the methods are straight-line
\* synchronous code, so a call that has a next statement goes on to it
Advance(c) ==
    \/ SelectInserted(c)
    \/ CommitMatch(c)
    \/ CommitEvent(c)
    \/ ReturnState(c)

SpecStepsFair == SpecSteps /\ \A c \in Callers : WF_vars(Advance(c))

\* ------------------------------------ test_match_reset, one call per step
\* The calls of test_match_service.py::test_match_reset, made in any order
\* and any number of times on the selected match, each run to completion.

\* most events the log may hold under SpecScenario
ScenarioEvents == 6

\* ScoreAction(team_color=TeamColor.BLUE, points=5, ...)
ScenarioPoints == 5

\* RoundChange(..., new_round=3)
ScenarioRound == 3

ScenarioCalls ==
    {[op |-> "add_score", args |-> [team_color |-> "BLUE", points |-> ScenarioPoints],
      action |-> [team_color |-> "BLUE", points |-> ScenarioPoints, match_id |-> 1]],
     [op |-> "add_gam_jeom", args |-> [penalized_team |-> "RED"],
      action |-> [penalized_team |-> "RED", match_id |-> 1]],
     [op |-> "next_round", args |-> [new_round |-> ScenarioRound],
      action |-> [new_round |-> ScenarioRound, match_id |-> 1]],
     [op |-> "change_match_state", args |-> [new_state |-> "RUNNING"],
      action |-> [new_state |-> "RUNNING", match_id |-> 1]],
     [op |-> "reset_match", args |-> NoArgs, action |-> [match_id |-> 1]]}

\* one call of a mutating method with the test's arguments
ScenarioCall(call) ==
    LET error == Guard(current_match_id, matches)
        loaded == [op |-> call.op, action |-> call.action,
                   match |-> matches[current_match_id]]
        row == Updated(loaded)
    IN IF error /= NoError
       THEN Refuse(call.op, call.args, error)
       ELSE /\ Len(events) < ScenarioEvents
            /\ matches' = [matches EXCEPT ![row.id] = row]
            /\ events' = RecordedFrom(loaded, row)
            /\ tally' = TallyWrite(Requested(loaded), row.id)
            /\ last' = Returned(call.op, call.args,
                                GetCurrentState(current_match_id, matches'))
            /\ UNCHANGED <<current_match_id, calls, spent>>

NextScenario ==
    \/ CreateNewMatch
    \/ \E call \in ScenarioCalls : ScenarioCall(call)

SpecScenario == Init /\ [][NextScenario]_vars

\* ======================================================== properties
\* the row the pointer selects exists
Selected == current_match_id /= None /\ current_match_id \in 1..Len(matches)

\* the last step was a successful call of a mutating method
Mutated == last'.op \in MutatingOps /\ last'.status = "ok"

\* the new log is the old one plus exactly one event
OneEventAppended ==
    /\ Len(events') = Len(events) + 1
    /\ SubSeq(events', 1, Len(events)) = events

BeforeCounters(e) ==
    [blue_score |-> e.blue_score_before, red_score |-> e.red_score_before,
     blue_gam_jeom |-> e.blue_gam_jeom_before, red_gam_jeom |-> e.red_gam_jeom_before]

AfterCounters(e) ==
    [blue_score |-> e.blue_score_after, red_score |-> e.red_score_after,
     blue_gam_jeom |-> e.blue_gam_jeom_after, red_gam_jeom |-> e.red_gam_jeom_after]

\* C1: for a match that was never reset, blue_score is the sum of the points
\* of every add_score for BLUE plus one per add_gam_jeom against RED, and
\* red_score the sum of the points for RED plus one per add_gam_jeom against
\* BLUE; the sums are not capped.
C1_ScoresAreSumOfCalls ==
    \A id \in 1..Len(matches) :
        tally[id].resets = 0 =>
            /\ matches[id].blue_score = tally[id].blue_points + tally[id].red_penalties
            /\ matches[id].red_score = tally[id].red_points + tally[id].blue_penalties

\* a never-reset match whose blue score, from one add_score and one penalty
\* against RED, is above what a single action can carry
C1_Witness ==
    \E id \in 1..Len(matches) :
        /\ tally[id].resets = 0
        /\ tally[id].blue_points = MaxPoints
        /\ tally[id].red_penalties = 1
        /\ matches[id].blue_score > MaxPoints

\* C2: a successful add_gam_jeom(team) adds exactly 1 to the penalized
\* team's gam-jeom count and exactly 1 to the opposing team's score, and
\* leaves the penalized team's score and the opponent's gam-jeom count as
\* they were.
C2_GamJeomEffect ==
    [][(last'.op = "add_gam_jeom" /\ last'.status = "ok") =>
        LET old == matches[current_match_id]
            new == matches'[current_match_id]
        IN IF last'.args.penalized_team = "BLUE"
           THEN /\ new.blue_gam_jeom = old.blue_gam_jeom + 1
                /\ new.red_score = old.red_score + 1
                /\ new.blue_score = old.blue_score
                /\ new.red_gam_jeom = old.red_gam_jeom
           ELSE /\ new.red_gam_jeom = old.red_gam_jeom + 1
                /\ new.blue_score = old.blue_score + 1
                /\ new.red_score = old.red_score
                /\ new.blue_gam_jeom = old.blue_gam_jeom]_vars

\* add_gam_jeom has just penalized RED in a match that already had scores
C2_Witness ==
    /\ last.op = "add_gam_jeom" /\ last.status = "ok"
    /\ last.args.penalized_team = "RED"
    /\ Selected
    /\ matches[current_match_id].red_gam_jeom = 1
    /\ matches[current_match_id].blue_score > 1
    /\ matches[current_match_id].red_score = 0

\* C3: every successful mutating call appends exactly one event, for the
\* selected match, whose "before" counters are the match's four counters
\* before the call and whose "after" counters are the four counters after it.
C3_OneEventPerMutation ==
    [][Mutated =>
        /\ OneEventAppended
        /\ LET e == events'[Len(events')]
           IN /\ e.match_id = current_match_id
              /\ BeforeCounters(e) = Counters(matches[current_match_id])
              /\ AfterCounters(e) = Counters(matches'[current_match_id])]_vars

\* a mutating call has just logged an event whose before and after differ,
\* starting from counters that were not all zero
C3_Witness ==
    /\ last.op \in MutatingOps /\ last.status = "ok"
    /\ Len(events) > 0
    /\ LET e == events[Len(events)]
       IN /\ BeforeCounters(e) /= ZeroCounters
          /\ BeforeCounters(e) /= AfterCounters(e)
          /\ e.event_type = "SCORE"

\* C4: with no match selected, each mutating method raises "No active
\* match", writes no Match row, appends no event and leaves the pointer unset.
C4_NoActiveMatch ==
    [][(current_match_id = None /\ last'.op \in MutatingOps) =>
        /\ last'.status = "error"
        /\ last'.error.message = "No active match"
        /\ matches' = matches
        /\ events' = events
        /\ current_match_id' = None]_vars

\* a mutating call was refused for want of a selected match
C4_Witness ==
    /\ last.op \in MutatingOps
    /\ last.status = "error"
    /\ last.error.message = "No active match"
    /\ current_match_id = None

\* C5: get_current_state always returns: the default snapshot when no match
\* is selected or the selected id has no row, else the six stored fields of
\* the selected row.
C5_GetStateNeverFails ==
    last.op = "get_current_state" =>
        /\ last.status = "ok"
        /\ last.value =
              IF current_match_id = None \/ current_match_id \notin 1..Len(matches)
              THEN [blue_score |-> 0, red_score |-> 0, blue_gam_jeom |-> 0,
                    red_gam_jeom |-> 0, current_round |-> 1,
                    match_state |-> "NOT_STARTED"]
              ELSE [blue_score |-> matches[current_match_id].blue_score,
                    red_score |-> matches[current_match_id].red_score,
                    blue_gam_jeom |-> matches[current_match_id].blue_gam_jeom,
                    red_gam_jeom |-> matches[current_match_id].red_gam_jeom,
                    current_round |-> matches[current_match_id].current_round,
                    match_state |-> matches[current_match_id].match_state]

\* get_current_state has answered while the pointer named a missing row
C5_Witness ==
    /\ last.op = "get_current_state"
    /\ current_match_id /= None
    /\ ~Selected
    /\ Len(matches) > 0

\* C6: with the pointer set to an id that has no row, every mutating method
\* raises the same exception class as with no id selected (ValueError), and
\* writes no Match row and appends no event.
C6_MissingMatchRefused ==
    [][(current_match_id /= None /\ ~Selected /\ last'.op \in MutatingOps) =>
        /\ last'.status = "error"
        /\ last'.error.type = "ValueError"
        /\ last'.error.type = NoActiveMatch.type
        /\ matches' = matches
        /\ events' = events]_vars

\* a mutating call was refused because the selected id has no row, while
\* another match is stored
C6_Witness ==
    /\ last.op \in MutatingOps
    /\ last.status = "error"
    /\ current_match_id /= None
    /\ ~Selected
    /\ Len(matches) > 0

\* C7: a successful reset_match sets the four counters to 0, the round to 1
\* and the state to NOT_STARTED, returns that snapshot, and appends exactly
\* one RESET event whose "before" counters are the values before the reset
\* and whose "after" counters are 0.
C7_ResetEffect ==
    [][(last'.op = "reset_match" /\ last'.status = "ok") =>
        /\ matches'[current_match_id] =
              [id |-> current_match_id, blue_score |-> 0, red_score |-> 0,
               blue_gam_jeom |-> 0, red_gam_jeom |-> 0, current_round |-> 1,
               match_state |-> "NOT_STARTED"]
        /\ last'.value =
              [blue_score |-> 0, red_score |-> 0, blue_gam_jeom |-> 0,
               red_gam_jeom |-> 0, current_round |-> 1,
               match_state |-> "NOT_STARTED"]
        /\ OneEventAppended
        /\ LET e == events'[Len(events')]
           IN /\ e.event_type = "RESET"
              /\ e.match_id = current_match_id
              /\ BeforeCounters(e) = Counters(matches[current_match_id])
              /\ AfterCounters(e) = ZeroCounters]_vars

\* reset_match has just reset a match that had a score and a penalty
C7_Witness ==
    /\ last.op = "reset_match" /\ last.status = "ok"
    /\ LET e == events[Len(events)]
       IN /\ e.event_type = "RESET"
          /\ e.blue_score_before > 0
          /\ e.red_gam_jeom_before > 0

C9_CreateEffect ==
    [][(last'.op = "create_new_match") =>
        /\ last'.status = "ok"
        /\ Len(matches') = Len(matches) + 1
        /\ SubSeq(matches', 1, Len(matches)) = matches
        /\ last'.value.id = Len(matches')
        /\ matches'[Len(matches')] =
              [id |-> last'.value.id, blue_score |-> 0, red_score |-> 0,
               blue_gam_jeom |-> 0, red_gam_jeom |-> 0, current_round |-> 1,
               match_state |-> "NOT_STARTED"]
        /\ current_match_id' = last'.value.id
        /\ OneEventAppended
        /\ LET e == events'[Len(events')]
           IN /\ e.event_type = "MATCH_CREATED"
              /\ e.match_id = last'.value.id
              /\ BeforeCounters(e) = ZeroCounters
              /\ AfterCounters(e) = ZeroCounters
              /\ e.round_number = 1]_vars

\* a second match has just been created while the first had a score
C9_Witness ==
    /\ last.op = "create_new_match"
    /\ Len(matches) = 2
    /\ current_match_id = 2
    /\ matches[1].blue_score + matches[1].red_score > 0
    /\ events[Len(events)].event_type = "MATCH_CREATED"

\* no call is in progress: what a caller finds once the calls before it have
\* returned, raised, or were cut off by a process stop
Quiescent == \A c \in Callers : calls[c].pc = "idle"

\* the events of match id, oldest first
EventsOf(id) == SelectSeq(events, LAMBDA e : e.match_id = id)

\* the stored Match shows exactly the mutations the log holds an event for:
\* it has events, and its counters are the "after" counters of its last event
PairedWithEvent(id) ==
    /\ EventsOf(id) /= <<>>
    /\ AfterCounters(EventsOf(id)[Len(EventsOf(id))]) = Counters(matches[id])

\* C10: the Match update and its event are observably atomic: whenever no
\* call is in progress, also after a commit raised or the process stopped in
\* the middle of a call, every stored Match mutation has its event and every
\* event its mutation.
C10_UpdateAndEventAtomic ==
    Quiescent => \A id \in 1..Len(matches) : PairedWithEvent(id)

\* C11: the Match is committed before its event. For every match, the
\* committed writes to its row that have no event in the log are exactly
\* those of the calls standing between their two commits and of the calls
\* that were stopped there, one event each; so the log never holds an event
\* for a write that was not committed, and a stop between the two commits
\* leaves the write stored and only that call's event missing.
C11_MatchCommittedBeforeEvent ==
    \A id \in 1..Len(matches) :
        /\ Len(EventsOf(id)) <= tally[id].writes
        /\ tally[id].writes - Len(EventsOf(id)) =
              Cardinality(CallsBetweenWrites(id)) + tally[id].cut

\* the process stopped between the two commits of an add_score: the row has
\* the point, the log holds the MATCH_CREATED event and no other
C11_Witness ==
    /\ Quiescent
    /\ \E id \in 1..Len(matches) :
          /\ tally[id].cut = 1
          /\ tally[id].writes = 2
          /\ tally[id].blue_points = MinPoints
          /\ matches[id].blue_score = MinPoints
          /\ Len(EventsOf(id)) = 1
          /\ EventsOf(id)[1].event_type = "MATCH_CREATED"

\* after - before of one event, counter by counter
Delta(e) ==
    [blue_score |-> e.blue_score_after - e.blue_score_before,
     red_score |-> e.red_score_after - e.red_score_before,
     blue_gam_jeom |-> e.blue_gam_jeom_after - e.blue_gam_jeom_before,
     red_gam_jeom |-> e.red_gam_jeom_after - e.red_gam_jeom_before]

AddCounters(a, b) ==
    [blue_score |-> a.blue_score + b.blue_score,
     red_score |-> a.red_score + b.red_score,
     blue_gam_jeom |-> a.blue_gam_jeom + b.blue_gam_jeom,
     red_gam_jeom |-> a.red_gam_jeom + b.red_gam_jeom]

RECURSIVE SumOfDeltas(_)
SumOfDeltas(log) ==
    IF log = <<>> THEN ZeroCounters
    ELSE AddCounters(Delta(Head(log)), SumOfDeltas(Tail(log)))

\* C12: after any sequence of completed calls, for every match the sum over
\* its events of (after - before) equals, counter by counter, the stored
\* blue_score, red_score, blue_gam_jeom and red_gam_jeom.
C12_DeltasReproduceMatch ==
    \A id \in 1..Len(matches) :
        SumOfDeltas(EventsOf(id)) = Counters(matches[id])

\* a match that was scored on and then reset: the RESET event takes back
\* what the SCORE event added
C12_Witness ==
    \E id \in 1..Len(matches) :
        /\ Len(EventsOf(id)) = 3
        /\ EventsOf(id)[2].event_type = "SCORE"
        /\ Delta(EventsOf(id)[2]) /= ZeroCounters
        /\ EventsOf(id)[3].event_type = "RESET"
        /\ BeforeCounters(EventsOf(id)[3]) /= ZeroCounters

\* C13: the event log is append-only: no call updates or deletes an event;
\* across every step the log keeps each event it had, with every field
\* value, and only grows.
C13_LogAppendOnly ==
    [][/\ Len(events') >= Len(events)
       /\ \A i \in 1..Len(events) : events'[i] = events[i]]_vars

\* a full log whose SCORE event, with the points it recorded, is still there
\* after the match was reset
C13_Witness ==
    /\ Len(events) = MaxEvents
    /\ \A i \in 1..Len(events) : events[i].id = i
    /\ events[1].event_type = "MATCH_CREATED"
    /\ \E i \in 2..(Len(events) - 1) :
          /\ events[i].event_type = "SCORE"
          /\ events[i].blue_score_after = MaxPoints
          /\ events[i + 1].event_type = "RESET"
          /\ events[i + 1].match_id = events[i].match_id

\* every one of the four counters of `new` is at least its value in `old`
NotBelow(new, old) ==
    /\ new.blue_score >= old.blue_score
    /\ new.red_score >= old.red_score
    /\ new.blue_gam_jeom >= old.blue_gam_jeom
    /\ new.red_gam_jeom >= old.red_gam_jeom

\* C14: for every call other than reset_match, each of blue_score,
\* red_score, blue_gam_jeom and red_gam_jeom of every stored match is, after
\* the call, greater than or equal to its value before.
C14_CountersMonotone ==
    [][last'.op /= "reset_match" =>
        \A id \in 1..Len(matches) : NotBelow(matches'[id], matches[id])]_vars

\* next_round has just moved a match on that had a score and a penalty, and
\* both are still there
C14_Witness ==
    /\ last.op = "next_round" /\ last.status = "ok"
    /\ Selected
    /\ matches[current_match_id].current_round = MaxRound
    /\ matches[current_match_id].blue_score = 1
    /\ matches[current_match_id].red_gam_jeom = 1

\* C15: in every reachable state every stored Match has its four counters
\* >= 0 and current_round >= 1, and every stored MatchEvent has its eight
\* before/after counters >= 0 and round_number >= 1.
C15_NonNegative ==
    /\ \A id \in 1..Len(matches) :
          /\ NotBelow(matches[id], ZeroCounters)
          /\ matches[id].current_round >= 1
    /\ \A i \in 1..Len(events) :
          /\ NotBelow(BeforeCounters(events[i]), ZeroCounters)
          /\ NotBelow(AfterCounters(events[i]), ZeroCounters)
          /\ events[i].round_number >= 1

\* a round below 1 was just turned down for a match that had been moved on
\* from round 1, and the log holds the event of that move
C15_Witness ==
    /\ last.op = "RoundChange" /\ last.status = "error"
    /\ last.args.new_round < 1
    /\ Selected
    /\ matches[current_match_id].current_round > 1
    /\ \E i \in 1..Len(events) :
          /\ events[i].event_type = "ROUND_CHANGE"
          /\ events[i].round_number = matches[current_match_id].current_round

\* C16: change_match_state(new_state) on a selected match has no legality
\* check: from every stored state a call to each of the four states can be
\* made, and every call succeeds, sets match_state to new_state, leaves the
\* four counters and current_round as they were, and appends one
\* STATE_CHANGE event whose before and after counters are both the current,
\* unchanged counters.
C16_StateChangeUnconditional ==
    /\ [](Selected /\ Len(events) < MaxEvents =>
            \A new_state \in MatchState :
                ENABLED (/\ ChangeMatchState([new_state |-> new_state, match_id |-> 999])
                         /\ last'.status = "ok"))
    /\ [][(Selected /\ last'.op = "change_match_state") =>
            LET old == matches[current_match_id]
                new == matches'[current_match_id]
                e == events'[Len(events')]
            IN /\ last'.status = "ok"
               /\ new.match_state = last'.args.new_state
               /\ Counters(new) = Counters(old)
               /\ new.current_round = old.current_round
               /\ OneEventAppended
               /\ e.event_type = "STATE_CHANGE"
               /\ e.match_id = current_match_id
               /\ BeforeCounters(e) = Counters(old)
               /\ AfterCounters(e) = Counters(old)]_vars

\* a match that was FINISHED has just been set RUNNING again, its score kept
C16_Witness ==
    /\ last.op = "change_match_state" /\ last.status = "ok"
    /\ last.args.new_state = "RUNNING"
    /\ Selected
    /\ matches[current_match_id].match_state = "RUNNING"
    /\ events[Len(events)].event_type = "STATE_CHANGE"
    /\ events[Len(events)].notes.old_state = "FINISHED"

\* C17: next_round(new_round) with new_round >= 1 on a selected match can be
\* called whatever the current round is and succeeds; it sets current_round
\* to new_round (equal, lower or higher), leaves the four counters and
\* match_state as they were and appends one ROUND_CHANGE event. A new_round
\* below 1 is turned down when the RoundChange is built: next_round is never
\* called with it and nothing is written.
C17_NextRoundOverwrites ==
    /\ [](Selected /\ Len(events) < MaxEvents =>
            \A new_round \in RoundInputs :
                new_round >= 1 =>
                    ENABLED (/\ NextRound([new_round |-> new_round, match_id |-> 999])
                             /\ last'.status = "ok"))
    /\ [][(Selected /\ last'.op = "next_round") =>
            LET old == matches[current_match_id]
                new == matches'[current_match_id]
                e == events'[Len(events')]
            IN /\ last'.status = "ok"
               /\ last'.args.new_round >= 1
               /\ new.current_round = last'.args.new_round
               /\ Counters(new) = Counters(old)
               /\ new.match_state = old.match_state
               /\ OneEventAppended
               /\ e.event_type = "ROUND_CHANGE"
               /\ e.match_id = current_match_id]_vars
    /\ [](\A new_round \in RoundInputs :
            new_round < 1 => ENABLED RoundChangeRefused(new_round))
    /\ [][last'.op = "RoundChange" =>
            /\ last'.status = "error"
            /\ last'.args.new_round < 1
            /\ matches' = matches
            /\ events' = events]_vars

\* next_round has just taken a match back from the last round to round 1
C17_Witness ==
    /\ last.op = "next_round" /\ last.status = "ok"
    /\ last.args.new_round = MinRound
    /\ Selected
    /\ matches[current_match_id].current_round = MinRound
    /\ events[Len(events)].event_type = "ROUND_CHANGE"
    /\ events[Len(events)].notes.old_round = MaxRound

\* the events of match id of one type and one team
EventsFor(id, event_type, team_color) ==
    SelectSeq(events, LAMBDA e : /\ e.match_id = id
                                 /\ e.event_type = event_type
                                 /\ e.team_color = team_color)

\* what one penalty against `team` changes
PenaltyDelta(team) ==
    IF team = "BLUE"
    THEN [blue_score |-> 0, red_score |-> 1, blue_gam_jeom |-> 1, red_gam_jeom |-> 0]
    ELSE [blue_score |-> 1, red_score |-> 0, blue_gam_jeom |-> 0, red_gam_jeom |-> 1]

\* C18: add_gam_jeom appends a single GAM_JEOM event: the log holds one such
\* event per penalty requested, its team_color is the penalized team (not
\* the team that got the point), its points_awarded is 1, and its
\* before/after counters show the penalized team's gam-jeom + 1 and the
\* opponent's score + 1 together, the other two counters equal.
C18_GamJeomEvent ==
    /\ \A i \in 1..Len(events) :
          events[i].event_type = "GAM_JEOM" =>
              /\ events[i].team_color \in TeamColor
              /\ events[i].points_awarded = 1
              /\ Delta(events[i]) = PenaltyDelta(events[i].team_color)
    /\ \A id \in 1..Len(matches) :
          /\ Len(EventsFor(id, "GAM_JEOM", "BLUE")) = tally[id].blue_penalties
          /\ Len(EventsFor(id, "GAM_JEOM", "RED")) = tally[id].red_penalties
    /\ (last.op = "add_gam_jeom" /\ last.status = "ok") =>
          /\ events[Len(events)].event_type = "GAM_JEOM"
          /\ events[Len(events)].team_color = last.args.penalized_team
          /\ events[Len(events)].match_id = current_match_id

\* BLUE has just been penalized while RED already had a point: the event is
\* BLUE's and shows RED going from 1 to 2
C18_Witness ==
    /\ last.op = "add_gam_jeom" /\ last.status = "ok"
    /\ last.args.penalized_team = "BLUE"
    /\ events[Len(events)].team_color = "BLUE"
    /\ events[Len(events)].red_score_before = 1
    /\ events[Len(events)].red_score_after = 2
    /\ events[Len(events)].blue_gam_jeom_after = 1

\* what `points` for `team` change
ScoreDelta(team, points) ==
    IF team = "BLUE"
    THEN [blue_score |-> points, red_score |-> 0, blue_gam_jeom |-> 0, red_gam_jeom |-> 0]
    ELSE [blue_score |-> 0, red_score |-> points, blue_gam_jeom |-> 0, red_gam_jeom |-> 0]

\* C19: the event appended by add_score(team, points) is a SCORE event whose
\* team_color is the scoring team, whose points_awarded is points, whose
\* round_number is the match's current round, and in which the scoring
\* team's score after is its score before plus points while the other three
\* counters have after = before.
C19_ScoreEvent ==
    /\ \A i \in 1..Len(events) :
          events[i].event_type = "SCORE" =>
              /\ events[i].team_color \in TeamColor
              /\ events[i].points_awarded \in MinPoints..MaxPoints
              /\ Delta(events[i]) = ScoreDelta(events[i].team_color, events[i].points_awarded)
    /\ (last.op = "add_score" /\ last.status = "ok") =>
          /\ events[Len(events)].event_type = "SCORE"
          /\ events[Len(events)].match_id = current_match_id
          /\ events[Len(events)].team_color = last.args.team_color
          /\ events[Len(events)].points_awarded = last.args.points
          /\ events[Len(events)].round_number = matches[current_match_id].current_round

\* RED has just scored 3 in the last round
C19_Witness ==
    /\ last.op = "add_score" /\ last.status = "ok"
    /\ last.args.team_color = "RED"
    /\ last.args.points = 3
    /\ events[Len(events)].round_number = MaxRound
    /\ events[Len(events)].red_score_after = 3
    /\ events[Len(events)].blue_score_after = 0

\* the methods of MatchService that callers use
CoreOps ==
    MutatingOps \cup {"create_new_match", "get_current_match_id",
                      "set_current_match_id", "get_current_state"}

\* C20: the only errors the core raises itself are the ValueError of the two
\* opening checks ("No active match", "Match not found"), and only the five
\* mutating methods raise them: create_new_match, get_current_state and the
\* two pointer accessors always return.
C20_OnlyMutatingOpsRaise ==
    /\ (last.op \in CoreOps /\ last.status = "error") =>
          /\ last.op \in MutatingOps
          /\ last.error.type = NoActiveMatch.type
          /\ last.error.message \in {"No active match", "Match not found"}
    /\ last.op \in CoreOps \ MutatingOps => last.status = "ok"

\* reset_match was refused on an empty store, where create_new_match and
\* get_current_state are the calls that succeed
C20_Witness ==
    /\ last.op = "reset_match"
    /\ last.status = "error"
    /\ last.error = NoActiveMatch
    /\ matches = <<>>
    /\ current_match_id = None

\* caller c has just executed self._current_match_id = match.id
SelectedInserted(c) == calls[c].pc = "select" /\ calls'[c].pc = "record"

\* the process has just been started again: MatchService.__init__
Restarted == InProgress /= {} /\ \A c \in Callers : calls'[c].pc = "idle"

\* C21: the pointer starts as None and is always the id of the most recent
\* write to it: set_current_match_id(id) and the assignment in
\* create_new_match each leave it at their id, whichever call they belong to
\* and however the calls interleave, and nothing else changes it but a new
\* start of the process; a mutating call then loads the row the pointer
\* names and its closing get_current_state returns that row.
C21_PointerLastWriterWins ==
    /\ current_match_id = None
    /\ [][/\ last'.op = "set_current_match_id" =>
                current_match_id' = last'.args.match_id
          /\ \A c \in Callers :
                SelectedInserted(c) => current_match_id' = calls[c].match.id
          /\ current_match_id' /= current_match_id =>
                \/ last'.op = "set_current_match_id"
                \/ \E c \in Callers : SelectedInserted(c)
                \/ Restarted /\ current_match_id' = None
          /\ \A c \in Callers :
                (calls[c].pc = "idle" /\ calls'[c].pc = "commit") =>
                    calls'[c].match = matches[current_match_id]
          /\ (last'.op \in MutatingOps /\ last'.status = "ok" /\ Selected) =>
                last'.value = Snapshot(matches[current_match_id])]_vars

\* two create_new_match calls interleaved so that the older match is the
\* one selected, and an add_score then scored on it and returned it
C21_Witness ==
    /\ spent = 0
    /\ Len(matches) = 2
    /\ current_match_id = 1
    /\ last.op = "add_score" /\ last.status = "ok"
    /\ last.value.blue_score = MinPoints
    /\ matches[1].blue_score = MinPoints
    /\ matches[2].blue_score = 0

\* the event types of match id, oldest first
EventTypes(id) == [i \in 1..Len(EventsOf(id)) |-> EventsOf(id)[i].event_type]

\* reset_match has just returned, and the calls made on the selected match
\* were exactly those whose event types are `types`
JustReset(types) ==
    /\ last.op = "reset_match" /\ last.status = "ok"
    /\ Selected
    /\ EventTypes(current_match_id) = types

\* create_new_match, add_score(BLUE,5), next_round(3),
\* change_match_state(RUNNING), reset_match
ScenarioRan ==
    JustReset(<<"MATCH_CREATED", "SCORE", "ROUND_CHANGE", "STATE_CHANGE", "RESET">>)

\* the same with add_gam_jeom(RED) after the add_score, as test_match_reset
\* makes the calls
ScenarioWithPenaltyRan ==
    JustReset(<<"MATCH_CREATED", "SCORE", "GAM_JEOM", "ROUND_CHANGE",
                "STATE_CHANGE", "RESET">>)

\* the RESET event that the reset_match that just returned appended
ResetEvent == EventsOf(current_match_id)[Len(EventsOf(current_match_id))]

\* C22 as stated: after create_new_match, add_score(BLUE,5), next_round(3),
\* change_match_state(RUNNING), reset_match, the snapshot reset_match returns
\* is {0,0,0,0,1,NOT_STARTED} and the "before" fields of the RESET event are
\* blue_score 6, red_score 0, blue_gam_jeom 0, red_gam_jeom 1.
C22_ScenarioAsStated ==
    ScenarioRan =>
        /\ last.value = [blue_score |-> 0, red_score |-> 0, blue_gam_jeom |-> 0,
                         red_gam_jeom |-> 0, current_round |-> 1,
                         match_state |-> "NOT_STARTED"]
        /\ BeforeCounters(ResetEvent) =
              [blue_score |-> 6, red_score |-> 0, blue_gam_jeom |-> 0,
               red_gam_jeom |-> 1]

\* C22, amended: after that scenario the snapshot reset_match returns is
\* {0,0,0,0,1,NOT_STARTED} and the "before" fields of the RESET event are
\* blue_score 5, red_score 0, blue_gam_jeom 0, red_gam_jeom 0; they are
\* 6, 0, 0, 1 when add_gam_jeom(RED) is called as well before the reset. In
\* both cases "before" is the Match's counters just before the reset and
\* "after" is all 0.
C22_ScenarioAmended ==
    /\ ScenarioRan =>
          /\ last.value = [blue_score |-> 0, red_score |-> 0, blue_gam_jeom |-> 0,
                           red_gam_jeom |-> 0, current_round |-> 1,
                           match_state |-> "NOT_STARTED"]
          /\ BeforeCounters(ResetEvent) =
                [blue_score |-> 5, red_score |-> 0, blue_gam_jeom |-> 0,
                 red_gam_jeom |-> 0]
          /\ AfterCounters(ResetEvent) = ZeroCounters
    /\ ScenarioWithPenaltyRan =>
          /\ last.value = [blue_score |-> 0, red_score |-> 0, blue_gam_jeom |-> 0,
                           red_gam_jeom |-> 0, current_round |-> 1,
                           match_state |-> "NOT_STARTED"]
          /\ BeforeCounters(ResetEvent) =
                [blue_score |-> 6, red_score |-> 0, blue_gam_jeom |-> 0,
                 red_gam_jeom |-> 1]
          /\ AfterCounters(ResetEvent) = ZeroCounters

\* the five calls of the scenario have been made, in its order, on a match
\* that was in round 3 and RUNNING when it was reset
C22_Witness ==
    /\ ScenarioRan
    /\ ResetEvent.notes.round_before = ScenarioRound
    /\ EventsOf(current_match_id)[4].notes.new_state = "RUNNING"
    /\ EventsOf(current_match_id)[2].points_awarded = ScenarioPoints

\* C23: every call, once it is in progress, eventually ends: it returns its
\* result or an error reaches the caller. No method retries, waits or loops,
\* so with the statements of each call scheduled fairly no call stays in
\* progress for ever.
C23_CallsTerminate ==
    \A c \in Callers : (calls[c].pc /= "idle") ~> (calls[c].pc = "idle")

\* an add_score that another call overlapped has returned its snapshot, and
\* no call is left in progress
C23_Witness ==
    /\ Quiescent
    /\ last.op = "add_score" /\ last.status = "ok"
    /\ Len(events) = MaxEvents
    /\ spent = 0
    /\ events[Len(events) - 1].event_type = "GAM_JEOM"
    /\ events[Len(events)].event_type = "SCORE"
    /\ events[Len(events)].blue_score_before = events[Len(events) - 1].blue_score_before

\* C24: the snapshot a mutating call returns is the state of the Match that
\* the call mutated, also when another caller has changed the pointer
\* (set_current_match_id or create_new_match) while the call was in progress.
C24_ReturnsMutatedMatch ==
    [][\A c \in Callers :
          (/\ calls[c].pc = "return"
           /\ calls'[c].pc = "idle"
           /\ last'.op = calls[c].op
           /\ last'.status = "ok") =>
              last'.value = Snapshot(matches[calls[c].match.id])]_vars

\* C25: when mutating calls on the same Match interleave their load, commit
\* and event steps, no increment is lost: once the calls have ended, the
\* counters of a match that was never reset are what the committed calls
\* give when applied one after the other, every point and every penalty
\* counted.
C25_NoLostIncrement ==
    Quiescent =>
        \A id \in 1..Len(matches) :
            tally[id].resets = 0 =>
                /\ matches[id].blue_score =
                      tally[id].blue_points + tally[id].red_penalties
                /\ matches[id].red_score =
                      tally[id].red_points + tally[id].blue_penalties
                /\ matches[id].blue_gam_jeom = tally[id].blue_penalties
                /\ matches[id].red_gam_jeom = tally[id].red_penalties

\* C26: with the calls made one at a time and each completing, the events
\* of every match form a chain: the first is MATCH_CREATED with all eight
\* counters 0, and the four "before" counters of every later event are the
\* four "after" counters of the match's previous event.
C26_EventChain ==
    \A id \in 1..Len(matches) :
        /\ Len(EventsOf(id)) >= 1
        /\ EventsOf(id)[1].event_type = "MATCH_CREATED"
        /\ BeforeCounters(EventsOf(id)[1]) = ZeroCounters
        /\ AfterCounters(EventsOf(id)[1]) = ZeroCounters
        /\ \A i \in 2..Len(EventsOf(id)) :
              BeforeCounters(EventsOf(id)[i]) = AfterCounters(EventsOf(id)[i - 1])

\* a match whose third event, a STATE_CHANGE, starts from the non-zero
\* counters its second event, a SCORE, ended with
C26_Witness ==
    \E id \in 1..Len(matches) :
        /\ Len(EventsOf(id)) = 3
        /\ EventsOf(id)[2].event_type = "SCORE"
        /\ EventsOf(id)[3].event_type = "STATE_CHANGE"
        /\ BeforeCounters(EventsOf(id)[3]) /= ZeroCounters

\* C27: in every state reached by calls made one after the other, each
\* team's score is at least the opposing team's gam-jeom count:
\* blue_score >= red_gam_jeom and red_score >= blue_gam_jeom.
C27_ScoreCoversPenalties ==
    \A id \in 1..Len(matches) :
        /\ matches[id].blue_score >= matches[id].red_gam_jeom
        /\ matches[id].red_score >= matches[id].blue_gam_jeom

\* a match whose only points are those of the two penalties against RED
C27_Witness ==
    \E id \in 1..Len(matches) :
        /\ matches[id].red_gam_jeom = 2
        /\ matches[id].blue_score = matches[id].red_gam_jeom
        /\ matches[id].red_score = 0
        /\ matches[id].blue_gam_jeom = 0

\* the step wrote `row` over the selected match and nothing over any other,
\* and appended one event, for the selected match
ActsOnSelected(row) ==
    /\ last'.status = "ok"
    /\ matches' = [matches EXCEPT ![current_match_id] = row]
    /\ row.id = current_match_id
    /\ OneEventAppended
    /\ events'[Len(events')].match_id = current_match_id

\* the step raised "No active match" and wrote nothing
RefusedNoActiveMatch ==
    /\ last'.status = "error"
    /\ last'.error.message = "No active match"
    /\ matches' = matches
    /\ events' = events

\* C28: every mutating method acts on the match the pointer names and
\* ignores the match_id of its action object: whatever match_id the action
\* carries, equal to the pointer or not, the call changes exactly the
\* selected match, and with no pointer set it raises "No active match".
C28_ActionMatchIdIgnored ==
    /\ (Selected /\ Len(events) < MaxEvents) =>
          LET match == matches[current_match_id]
          IN /\ \A a \in ScoreActions :
                   ENABLED (/\ AddScore(a)
                            /\ ActsOnSelected(ScoreUpdate(match, a.team_color, a.points)))
             /\ \A a \in GamJeomActions :
                   ENABLED (/\ AddGamJeom(a)
                            /\ ActsOnSelected(GamJeomUpdate(match, a.penalized_team)))
             /\ \A a \in MatchStateChanges :
                   ENABLED (/\ ChangeMatchState(a)
                            /\ ActsOnSelected(StateUpdate(match, a.new_state)))
             /\ \A a \in RoundChanges :
                   ENABLED (/\ NextRound(a)
                            /\ ActsOnSelected(RoundUpdate(match, a.new_round)))
             /\ \A a \in MatchResets :
                   ENABLED (/\ ResetMatch(a) /\ ActsOnSelected(ResetUpdate(match)))
    /\ current_match_id = None =>
          /\ \A a \in ScoreActions : ENABLED (AddScore(a) /\ RefusedNoActiveMatch)
          /\ \A a \in GamJeomActions : ENABLED (AddGamJeom(a) /\ RefusedNoActiveMatch)
          /\ \A a \in MatchStateChanges :
                ENABLED (ChangeMatchState(a) /\ RefusedNoActiveMatch)
          /\ \A a \in RoundChanges : ENABLED (NextRound(a) /\ RefusedNoActiveMatch)
          /\ \A a \in MatchResets : ENABLED (ResetMatch(a) /\ RefusedNoActiveMatch)

\* with match 2 selected, add_score has scored on match 2 and left match 1
\* as it was, though no action object carries the id 2
C28_Witness ==
    /\ 2 \notin ActionMatchIds
    /\ Len(matches) = 2
    /\ current_match_id = 2
    /\ last.op = "add_score" /\ last.status = "ok"
    /\ matches[2].red_score = 3
    /\ Counters(matches[1]) = ZeroCounters
    /\ events[Len(events)].match_id = 2

\* C29: a mutating call changes only the selected Match row and appends
\* only an event carrying that match's id; create_new_match gives the new
\* row an id no stored match has and leaves every stored Match row and
\* every stored event as it was; the id of a row never changes.
C29_OnlySelectedMatchChanges ==
    [][/\ Mutated =>
            /\ Len(matches') = Len(matches)
            /\ \A id \in 1..Len(matches) :
                  /\ matches'[id].id = matches[id].id
                  /\ id /= current_match_id => matches'[id] = matches[id]
            /\ OneEventAppended
            /\ events'[Len(events')].match_id = matches[current_match_id].id
       /\ last'.op = "create_new_match" =>
            /\ \A id \in 1..Len(matches) : matches[id].id /= last'.value.id
            /\ Len(matches') = Len(matches) + 1
            /\ \A id \in 1..Len(matches) : matches'[id] = matches[id]
            /\ matches'[Len(matches')].id = last'.value.id
            /\ OneEventAppended
            /\ events'[Len(events')].match_id = last'.value.id]_vars

\* the first of two matches was selected again and penalized; the second
\* is still as create_new_match made it
C29_Witness ==
    /\ Len(matches) = 2
    /\ current_match_id = 1
    /\ last.op = "add_gam_jeom" /\ last.status = "ok"
    /\ matches[1].blue_gam_jeom = 1
    /\ matches[2] = DefaultMatch(2)
    /\ events[Len(events)].match_id = 1
    /\ events[Len(events) - 1].match_id = 2

\* C30: add_score(team, points) changes only that team's score, by points:
\* the other team's score, both gam-jeom counts, current_round, match_state
\* and the id of the selected match are as before.
C30_AddScoreFrame ==
    [][(last'.op = "add_score" /\ last'.status = "ok") =>
        LET old == matches[current_match_id]
            new == matches'[current_match_id]
        IN new = IF last'.args.team_color = "BLUE"
                 THEN [old EXCEPT !.blue_score = old.blue_score + last'.args.points]
                 ELSE [old EXCEPT !.red_score = old.red_score + last'.args.points]]_vars

\* RED has just scored 1 in a match in which BLUE had 10: BLUE's 10 stand
C30_Witness ==
    /\ last.op = "add_score" /\ last.status = "ok"
    /\ last.args.team_color = "RED"
    /\ last.args.points = MinPoints
    /\ Selected
    /\ matches[current_match_id].blue_score = MaxPoints
    /\ matches[current_match_id].red_score = MinPoints
    /\ matches[current_match_id].match_state = "NOT_STARTED"

\* ------------------------------------------------ C31
ScoringEventTypes == {"SCORE", "GAM_JEOM"}

\* C31: only SCORE and GAM_JEOM events carry a team_color and a non-zero
\* points_awarded; every STATE_CHANGE, ROUND_CHANGE, MATCH_CREATED and RESET
\* event has team_color absent and points_awarded = 0.
C31_OnlyScoringEventsCarryPoints ==
    \A i \in 1..Len(events) :
        IF events[i].event_type \in ScoringEventTypes
        THEN /\ events[i].team_color \in TeamColor
             /\ events[i].points_awarded >= MinPoints
        ELSE /\ events[i].event_type \in
                    {"MATCH_CREATED", "STATE_CHANGE", "ROUND_CHANGE", "RESET"}
             /\ events[i].team_color = NoTeam
             /\ events[i].points_awarded = 0

\* a log holding a SCORE event with its team and points and, after it, a
\* ROUND_CHANGE event to a later round with neither
C31_Witness ==
    /\ Len(events) = 3
    /\ events[2].event_type = "SCORE"
    /\ events[2].team_color = "BLUE"
    /\ events[2].points_awarded = 3
    /\ events[3].event_type = "ROUND_CHANGE"
    /\ events[3].round_number = MaxRound
    /\ events[3].team_color = NoTeam
    /\ events[3].points_awarded = 0

\* ------------------------------------------------ C32
\* the round the match was in when the i-th of its events was recorded: the
\* round its previous event left it in
RoundBefore(log, i) == log[i - 1].round_number

\* C32: each event's round_number is the match's round at the time of the
\* event: the match's current_round for SCORE, GAM_JEOM and STATE_CHANGE
\* events, the new round for a ROUND_CHANGE event, and 1 for MATCH_CREATED
\* and RESET events; after the operation the event's round_number equals the
\* match's current_round.
C32_EventRound ==
    \A id \in 1..Len(matches) :
        /\ EventsOf(id) /= <<>>
        /\ EventsOf(id)[Len(EventsOf(id))].round_number = matches[id].current_round
        /\ \A i \in 1..Len(EventsOf(id)) :
              LET e == EventsOf(id)[i]
              IN CASE e.event_type \in {"MATCH_CREATED", "RESET"} ->
                        e.round_number = 1
                   [] e.event_type = "ROUND_CHANGE" ->
                        /\ e.round_number = e.notes.new_round
                        /\ i > 1
                        /\ e.notes.old_round = RoundBefore(EventsOf(id), i)
                   [] OTHER ->
                        /\ i > 1
                        /\ e.round_number = RoundBefore(EventsOf(id), i)

\* a match taken to the last round and then reset: its ROUND_CHANGE event
\* carries the new round, its RESET event round 1, which is the match's round
C32_Witness ==
    /\ Len(events) = 3
    /\ events[2].event_type = "ROUND_CHANGE"
    /\ events[2].round_number = MaxRound
    /\ events[3].event_type = "RESET"
    /\ events[3].match_id = events[2].match_id
    /\ events[3].notes.round_before = MaxRound
    /\ events[3].round_number = 1
    /\ matches[events[3].match_id].current_round = 1

\* ====================================================================
\* The scoring page (scoring_ui.py): the page load and the button handlers,
\* each run to completion on the event loop, driving the one MatchService
\* of the process.
\* ====================================================================

\* the "+1" and "+3" buttons of each panel
ButtonPoints == {1, 3}

\* no ui.notify call
Silent == "-"

\* the labels were not rewritten by this handler
NoDisplay == [updated |-> FALSE]

\* what a handler leaves behind: the notification it showed and the snapshot
\* _update_display wrote into the labels
Handled(handler, args, notify, display) ==
    Returned(handler, args, [notify |-> notify, display |-> display])

\* the except branch of a handler: logger.error and ui.notify(type="negative")
Notified(handler, args, error) ==
    Returned(handler, args, [notify |-> "negative", display |-> NoDisplay, error |-> error])

IntentHandlers ==
    {"_add_blue_score", "_add_red_score", "_add_blue_gam_jeom", "_add_red_gam_jeom",
     "_start_match", "_pause_match", "_reset_match", "_next_round"}

\* _add_blue_score(points) / _add_red_score(points)
ScoreIntent(team_color, points) ==
    [handler |-> IF team_color = "BLUE" THEN "_add_blue_score" ELSE "_add_red_score",
     args |-> [points |-> points],
     op |-> "add_score",
     action |-> [team_color |-> team_color, points |-> points,
                 match_id |-> current_match_id],
     notify |-> Silent]

\* _add_blue_gam_jeom / _add_red_gam_jeom
GamJeomIntent(penalized_team) ==
    [handler |-> IF penalized_team = "BLUE" THEN "_add_blue_gam_jeom"
                                            ELSE "_add_red_gam_jeom",
     args |-> NoArgs,
     op |-> "add_gam_jeom",
     action |-> [penalized_team |-> penalized_team, match_id |-> current_match_id],
     notify |-> "warning"]

\* _start_match: MatchStateChange(new_state=MatchState.RUNNING)
StartIntent ==
    [handler |-> "_start_match", args |-> NoArgs, op |-> "change_match_state",
     action |-> [new_state |-> "RUNNING", match_id |-> current_match_id],
     notify |-> "positive"]

\* Pause sending the state that ends the match
PauseIntentFinishes ==
    [handler |-> "_pause_match", args |-> NoArgs, op |-> "change_match_state",
     action |-> [new_state |-> "FINISHED", match_id |-> current_match_id],
     notify |-> "info"]

\* _pause_match: MatchStateChange(new_state=MatchState.PAUSED)
PauseIntent ==
    [handler |-> "_pause_match", args |-> NoArgs, op |-> "change_match_state",
     action |-> [new_state |-> "PAUSED", match_id |-> current_match_id],
     notify |-> "info"]

\* _reset_match: MatchReset(match_id)
ResetIntent ==
    [handler |-> "_reset_match", args |-> NoArgs, op |-> "reset_match",
     action |-> [match_id |-> current_match_id],
     notify |-> "info"]

\* Next Round counting from the controller's own current_state attribute,
\* which is never refreshed and so stands for round 1
NextRoundIntentStale ==
    [handler |-> "_next_round", args |-> NoArgs, op |-> "next_round",
     action |-> [new_round |-> DefaultState.current_round + 1,
                 match_id |-> current_match_id],
     notify |-> "positive"]

\* _next_round: new_round = get_current_state().current_round + 1
NextRoundIntent ==
    [handler |-> "_next_round", args |-> NoArgs, op |-> "next_round",
     action |-> [new_round |->
                     GetCurrentState(current_match_id, matches).current_round + 1,
                 match_id |-> current_match_id],
     notify |-> "positive"]

\* what stops the handler's call before it changes anything: the schema of
\* the action object it builds, then the core's own checks
IntentError(intent) ==
    IF intent.op = "next_round" /\ RoundChangeSchema(intent.action.new_round) /= NoError
    THEN RoundChangeSchema(intent.action.new_round)
    ELSE Guard(current_match_id, matches)

\* a handler that goes straight to the core without looking at the pointer
IntentUnchecked(intent) ==
    LET loaded == [op |-> intent.op, action |-> intent.action,
                   match |-> matches[current_match_id]]
        row == Updated(loaded)
    IN IF IntentError(intent) /= NoError
       THEN /\ last' = Notified(intent.handler, intent.args, IntentError(intent))
            /\ UNCHANGED <<matches, events, current_match_id, tally, calls, spent>>
       ELSE /\ Len(events) < MaxEvents
            /\ matches' = [matches EXCEPT ![row.id] = row]
            /\ events' = RecordedFrom(loaded, row)
            /\ tally' = TallyWrite(Requested(loaded), row.id)
            /\ last' = Handled(intent.handler, intent.args, intent.notify,
                               GetCurrentState(current_match_id, matches'))
            /\ UNCHANGED <<current_match_id, calls, spent>>

\* the body shared by the eight handlers: return if get_current_match_id() is
\* None; otherwise build the action, call the core, _update_display, notify;
\* any exception ends in the except branch
Intent(intent) ==
    LET match_id == current_match_id
        loaded == [op |-> intent.op, action |-> intent.action,
                   match |-> matches[current_match_id]]
        row == Updated(loaded)
    IN IF match_id = None
       THEN /\ last' = Handled(intent.handler, intent.args, Silent, NoDisplay)
            /\ UNCHANGED <<matches, events, current_match_id, tally, calls, spent>>
       ELSE IF IntentError(intent) /= NoError
       THEN /\ last' = Notified(intent.handler, intent.args, IntentError(intent))
            /\ UNCHANGED <<matches, events, current_match_id, tally, calls, spent>>
       ELSE /\ Len(events) < MaxEvents
            /\ matches' = [matches EXCEPT ![row.id] = row]
            /\ events' = RecordedFrom(loaded, row)
            /\ tally' = TallyWrite(Requested(loaded), row.id)
            /\ last' = Handled(intent.handler, intent.args, intent.notify,
                               GetCurrentState(current_match_id, matches'))
            /\ UNCHANGED <<current_match_id, calls, spent>>

UIAddBlueScore(points) == Intent(ScoreIntent("BLUE", points))

UIAddRedScore(points) == Intent(ScoreIntent("RED", points))

UIAddBlueGamJeom == Intent(GamJeomIntent("BLUE"))

UIAddRedGamJeom == Intent(GamJeomIntent("RED"))

UIStartMatch == Intent(StartIntent)

UIPauseMatch == Intent(PauseIntent)

UIResetMatch == Intent(ResetIntent)

UINextRound == Intent(NextRoundIntent)

\* a page load that starts a new match every time
ScoringPageAlwaysCreates ==
    /\ Len(matches) < MaxMatches
    /\ Len(events) < MaxEvents
    /\ LET id == Len(matches) + 1
       IN /\ matches' = Append(matches, DefaultMatch(id))
          /\ tally' = Append(tally, NoTally)
          /\ current_match_id' = id
          /\ events' = RecordCreated(events, id)
          /\ last' = Handled("scoring_page", NoArgs, Silent,
                             GetCurrentState(id, matches'))
    /\ UNCHANGED <<calls, spent>>

\* scoring_page: create_new_match() if no match is selected, then the layout
\* and _update_display
ScoringPage ==
    IF current_match_id = None
    THEN /\ Len(matches) < MaxMatches
         /\ Len(events) < MaxEvents
         /\ LET id == Len(matches) + 1
            IN /\ matches' = Append(matches, DefaultMatch(id))
               /\ tally' = Append(tally, NoTally)
               /\ IF id = None
                  THEN /\ last' = Raised("scoring_page", NoArgs, FailedToCreate)
                       /\ UNCHANGED <<events, current_match_id>>
                  ELSE /\ current_match_id' = id
                       /\ events' = RecordCreated(events, id)
                       /\ last' = Handled("scoring_page", NoArgs, Silent,
                                          GetCurrentState(id, matches'))
         /\ UNCHANGED <<calls, spent>>
    ELSE /\ last' = Handled("scoring_page", NoArgs, Silent,
                            GetCurrentState(current_match_id, matches))
         /\ UNCHANGED <<matches, events, current_match_id, tally, calls, spent>>

\* a new process against the same database: match_service = MatchService()
\* starts with no match selected, the rows stay
StartProcess ==
    /\ current_match_id' = None
    /\ last' = Returned("startup", NoArgs, NoArgs)
    /\ UNCHANGED <<matches, events, tally, calls, spent>>

NextUI ==
    \/ StartProcess
    \/ ScoringPage
    \/ \E points \in ButtonPoints : UIAddBlueScore(points)
    \/ \E points \in ButtonPoints : UIAddRedScore(points)
    \/ UIAddBlueGamJeom
    \/ UIAddRedGamJeom
    \/ UIStartMatch
    \/ UIPauseMatch
    \/ UIResetMatch
    \/ UINextRound

SpecUI == Init /\ [][NextUI]_vars

\* ------------------------------------------------ C33
\* C33: every UI intent handler (score +1/+3, Gam-Jeom, Start, Pause, Reset,
\* Next Round) is a no-op when no match is selected: it returns without
\* calling a mutating core operation, without changing any state and without
\* raising or notifying an error.
C33_HandlersNoOpWithoutMatch ==
    [][(current_match_id = None /\ last'.op \in IntentHandlers) =>
          /\ UNCHANGED <<matches, events, current_match_id, tally>>
          /\ last'.status = "ok"
          /\ last'.value.notify = Silent
          /\ last'.value.display = NoDisplay]_vars

\* Reset has just been pressed in a process that has no match selected while
\* the database holds a match with points on it: nothing moved
C33_Witness ==
    /\ current_match_id = None
    /\ last.op = "_reset_match"
    /\ last.value.notify = Silent
    /\ Len(matches) = 1
    /\ matches[1].blue_score = 3
    /\ Len(events) = 2

\* ------------------------------------------------ C34
\* a step of the scoring page being loaded
PageLoaded == last'.op = "scoring_page" /\ last' /= last

\* a step in which a match row is inserted
MatchCreated == Len(matches') > Len(matches)

\* C34: loading the scoring page creates a new match only when no match is
\* selected; when a match is already selected the page load creates nothing
\* and leaves that match's state, its events and the pointer unchanged, so at
\* most one match is created by the page loads of one process.
C34_PageLoadCreatesOnce ==
    [][/\ (PageLoaded /\ current_match_id = None) =>
              /\ Len(matches') = Len(matches) + 1
              /\ current_match_id' = Len(matches')
              /\ matches'[current_match_id'] = DefaultMatch(current_match_id')
              /\ events' = RecordCreated(events, current_match_id')
       /\ (PageLoaded /\ current_match_id /= None) =>
              UNCHANGED <<matches, events, current_match_id>>
       /\ MatchCreated => (PageLoaded /\ current_match_id = None)
       /\ (current_match_id /= None /\ last'.op /= "startup") =>
              /\ current_match_id' = current_match_id
              /\ ~MatchCreated]_vars

\* the page has just been loaded again in a process whose match is in round
\* 2 with a point on it: still one match, the same two events after its
\* creation, the same pointer, and the labels show that match
C34_Witness ==
    /\ last.op = "scoring_page"
    /\ current_match_id = 1
    /\ Len(matches) = 1
    /\ Len(events) = 3
    /\ matches[1].current_round = 2
    /\ matches[1].red_score = 1
    /\ last.value.display = Snapshot(matches[1])

\* ------------------------------------------------ C35
\* a step of the handler having gone through to the core
Pressed(handler) ==
    /\ last'.op = handler
    /\ current_match_id /= None
    /\ last'.value.notify /= "negative"

\* C35: the UI's Next Round always requests new_round = current_round + 1 of
\* the selected match, so over any sequence of UI intents current_round
\* changes only by +1 on Next Round or returns to 1 on Reset.
C35_RoundStepsByOne ==
    [][/\ Pressed("_next_round") =>
              /\ OneEventAppended
              /\ events'[Len(events')].event_type = "ROUND_CHANGE"
              /\ events'[Len(events')].match_id = current_match_id
              /\ events'[Len(events')].notes.new_round =
                     matches[current_match_id].current_round + 1
              /\ matches'[current_match_id].current_round =
                     matches[current_match_id].current_round + 1
       /\ Pressed("_reset_match") => matches'[current_match_id].current_round = 1
       /\ \A id \in 1..Len(matches) :
              \/ matches'[id].current_round = matches[id].current_round
              \/ /\ id = current_match_id
                 /\ Pressed("_next_round")
                 /\ matches'[id].current_round = matches[id].current_round + 1
              \/ /\ id = current_match_id
                 /\ Pressed("_reset_match")
                 /\ matches'[id].current_round = 1]_vars

\* Next Round pressed twice: the match is in round 3 and the last event
\* records the change from 2 to 3
C35_Witness ==
    /\ last.op = "_next_round"
    /\ last.value.notify = "positive"
    /\ Selected
    /\ matches[current_match_id].current_round = 3
    /\ last.value.display.current_round = 3
    /\ events[Len(events)].event_type = "ROUND_CHANGE"
    /\ events[Len(events)].notes.old_round = 2
    /\ events[Len(events)].notes.new_round = 3

\* ------------------------------------------------ C36
\* the handler was the last thing to run and went through to the core
JustPressed(handler) ==
    /\ last.op = handler
    /\ Selected
    /\ last.value.notify \notin {Silent, "negative"}

\* C36: through the UI intent handlers alone match_state only takes the
\* values NOT_STARTED (initially and after Reset), RUNNING (Start) and PAUSED
\* (Pause); FINISHED is never reached by any sequence of UI intents.
C36_FinishedUnreachableFromUI ==
    /\ \A id \in 1..Len(matches) :
          matches[id].match_state \in {"NOT_STARTED", "RUNNING", "PAUSED"}
    /\ \A i \in 1..Len(events) :
          events[i].event_type = "STATE_CHANGE" =>
              events[i].notes.new_state \in {"RUNNING", "PAUSED"}
    /\ JustPressed("_start_match") =>
          matches[current_match_id].match_state = "RUNNING"
    /\ JustPressed("_pause_match") =>
          matches[current_match_id].match_state = "PAUSED"
    /\ JustPressed("_reset_match") =>
          matches[current_match_id].match_state = "NOT_STARTED"
    /\ last.op = "scoring_page" /\ Len(EventsOf(current_match_id)) = 1 =>
          matches[current_match_id].match_state = "NOT_STARTED"

\* Start and then Pause: the match went from NOT_STARTED to RUNNING to PAUSED
C36_Witness ==
    /\ JustPressed("_pause_match")
    /\ Len(events) = 3
    /\ events[2].event_type = "STATE_CHANGE"
    /\ events[2].notes.old_state = "NOT_STARTED"
    /\ events[2].notes.new_state = "RUNNING"
    /\ events[3].notes.old_state = "RUNNING"
    /\ matches[current_match_id].match_state = "PAUSED"

====
